---- MODULE Spec2Model ----
(***************************************************************************)
(* Model of the Sketchbook / BoNesis cross-validation scripts:             *)
(*   src/data/tools_comparison/tests/compare_sketchbook_bonesis.py         *)
(*   src/data/tools_comparison/tests/run_compare_all.py                    *)
(*                                                                         *)
(* The specifications of the module:                                       *)
(*   SpecCanon  two update-function maps are canonicalised and compared    *)
(*              (CanonicalBN.__init__, __hash__, __eq__);                  *)
(*   Spec       one run of main(): load, canonicalise, diff, report;       *)
(*   SpecCsv    parse_observations_csv reading a file row by row;          *)
(*   SpecBatch  run_comparisons_for_all_models over one directory, and     *)
(*              SpecBatchFair, the same with the loop running on.          *)
(***************************************************************************)
EXTENDS Integers, Sequences, FiniteSets, TLC

VARIABLES
    cn_x, cn_y,       \* the two update_functions maps handed to CanonicalBN
    cn_fx, cn_fy,     \* the two CanonicalBN objects (their .bdds)
    cn_out,           \* results of a == b, b == a, hash(a), hash(b)
    cn_pc             \* position in the canonicalise-and-compare run

cnVars == <<cn_x, cn_y, cn_fx, cn_fy, cn_out, cn_pc>>

VARIABLES
    csv_header,       \* the header row as read, <<>> before it is read
    csv_rows,         \* the data rows the reader has yielded so far
    csv_vars,         \* vars: the stripped names of the header's columns
    csv_spec,         \* spec: observation id -> {variable: bool}
    csv_err,          \* the exception raised: <<kind, offending value>>
    csv_pc            \* position in parse_observations_csv

csvVars == <<csv_header, csv_rows, csv_vars, csv_spec, csv_err, csv_pc>>

VARIABLES
    sketchbook_networks,     \* networks extracted from the archive
    data,                    \* result of parse_observations_csv
    bonesis_networks,        \* networks enumerated by the solver
    sketchbook_canonic_bns,  \* set of CanonicalBN built from the former
    bonesis_canonic_bns,     \* set of CanonicalBN built from the latter
    only_in_sketchbook,
    only_in_bonesis,
    in_both,
    stdout,                  \* the three counts and the verdict printed
    m_log,                   \* the progress lines printed so far, in order
    m_err,                   \* the exception that ended main()
    m_pc                     \* position in main()

mVars == <<sketchbook_networks, data, bonesis_networks, sketchbook_canonic_bns,
           bonesis_canonic_bns, only_in_sketchbook, only_in_bonesis, in_both,
           stdout, m_log, m_err, m_pc>>

VARIABLES
    models_dir,       \* the directory: whether it exists, and its files
    universal_fps,    \* the flag handed on to every comparison
    zip_files,        \* the archives found, sorted
    idx,              \* position of the loop over zip_files (from 1)
    results,          \* results: the list of (base_name, status)
    launched,         \* the commands handed to subprocess.run, in order
    run_outcome,      \* how the last call of subprocess.run ended
    b_out,            \* the lines printed so far
    status_counts,    \* status -> number of results with it
    b_pc              \* position in run_comparisons_for_all_models

bVars == <<models_dir, universal_fps, zip_files, idx, results, launched,
           run_outcome, b_out, status_counts, b_pc>>

-----------------------------------------------------------------------------
(* Update expressions: formulas over variable names with negation,         *)
(* conjunction, disjunction and truth literals, kept as syntax trees.      *)

EVar(n)    == <<"var", n>>
ETrue      == <<"true">>
EFalse     == <<"false">>
ENot(e)    == <<"not", e>>
EAnd(a, b) == <<"and", a, b>>
EOr(a, b)  == <<"or", a, b>>

\* The tokens 1 and 0 a BoNesis network writes for a constant function.  The
\* evaluator reads such a token as a name, and no variable has that name.
ERaw1 == <<"1">>
ERaw0 == <<"0">>

\* Variable names occurring in an expression.
RECURSIVE ExprVars(_)
ExprVars(e) ==
    IF e[1] = "var" THEN {e[2]}
    ELSE IF e[1] = "not" THEN ExprVars(e[2])
    ELSE IF e[1] \in {"and", "or"} THEN ExprVars(e[2]) \cup ExprVars(e[3])
    ELSE IF e[1] \in {"true", "false"} THEN {}
    ELSE {e[1]}

\* Truth value of an expression under a valuation (the set of true
\* variables): the meaning of the formula, against which the diagrams the
\* program builds are judged.
RECURSIVE Holds(_, _)
Holds(e, val) ==
    IF e[1] = "var" THEN e[2] \in val
    ELSE IF e[1] = "true" THEN TRUE
    ELSE IF e[1] = "false" THEN FALSE
    ELSE IF e[1] = "not" THEN ~Holds(e[2], val)
    ELSE IF e[1] = "and" THEN Holds(e[2], val) /\ Holds(e[3], val)
    ELSE Holds(e[2], val) \/ Holds(e[3], val)

-----------------------------------------------------------------------------
(* The shared symbolic variable domain: bdd_variables of main(), built     *)
(* from the variable names of the Sketchbook model, in their order.        *)

bdd_variables == <<"A", "B">>

BddVarNames == {bdd_variables[i] : i \in DOMAIN bdd_variables}

BddVarIndex(n) == CHOOSE i \in DOMAIN bdd_variables : bdd_variables[i] = n

\* The truth table of an expression over the shared domain.
TruthTable(e) == {val \in SUBSET BddVarNames : Holds(e, val)}

(* Reduced ordered decision diagrams over bdd_variables.  A diagram is a   *)
(* terminal or a decision node <<"node", i, low, high>> on the i-th        *)
(* variable; equal sub-diagrams are equal values, so sharing is implicit.  *)

BddFalse == <<"leaf", FALSE>>
BddTrue  == <<"leaf", TRUE>>

IsTerminal(b) == b[1] = "leaf"

\* A node constructor that keeps a node whose two branches are the same.
BddMkUnreduced(i, low, high) == <<"node", i, low, high>>

\* The node constructor: a node that decides nothing is dropped.
BddMk(i, low, high) == IF low = high THEN low ELSE <<"node", i, low, high>>

BddTop(b) == IF IsTerminal(b) THEN Len(bdd_variables) + 1 ELSE b[2]

BddLow(b, i)  == IF ~IsTerminal(b) /\ b[2] = i THEN b[3] ELSE b
BddHigh(b, i) == IF ~IsTerminal(b) /\ b[2] = i THEN b[4] ELSE b

RECURSIVE BddNot(_)
BddNot(b) ==
    IF b = BddFalse THEN BddTrue
    ELSE IF b = BddTrue THEN BddFalse
    ELSE BddMk(b[2], BddNot(b[3]), BddNot(b[4]))

RECURSIVE BddApply(_, _, _)
BddApply(op, a, b) ==
    IF IsTerminal(a) /\ IsTerminal(b)
    THEN LET x == (a = BddTrue)
             y == (b = BddTrue)
             r == IF op = "and" THEN x /\ y ELSE x \/ y
         IN  IF r THEN BddTrue ELSE BddFalse
    ELSE LET i == IF BddTop(a) < BddTop(b) THEN BddTop(a) ELSE BddTop(b)
         IN  BddMk(i, BddApply(op, BddLow(a, i), BddLow(b, i)),
                      BddApply(op, BddHigh(a, i), BddHigh(b, i)))

\* bdd_vars.eval_expression(func_str); defined when the expression only
\* mentions variables of the domain.
RECURSIVE eval_expression(_)
eval_expression(e) ==
    IF e[1] = "var" THEN BddMk(BddVarIndex(e[2]), BddFalse, BddTrue)
    ELSE IF e[1] = "true" THEN BddTrue
    ELSE IF e[1] = "false" THEN BddFalse
    ELSE IF e[1] = "not" THEN BddNot(eval_expression(e[2]))
    ELSE BddApply(e[1], eval_expression(e[2]), eval_expression(e[3]))

EvalDefined(e) == ExprVars(e) \subseteq BddVarNames

\* Decision nodes of a diagram.
RECURSIVE BddNodes(_)
BddNodes(b) ==
    IF IsTerminal(b) THEN {} ELSE {b} \cup BddNodes(b[3]) \cup BddNodes(b[4])

RECURSIVE Pow2(_)
Pow2(n) == IF n = 0 THEN 1 ELSE 2 * Pow2(n - 1)

\* Number of valuations of the variables i.. that satisfy the diagram.
RECURSIVE BddSatCount(_, _)
BddSatCount(b, i) ==
    IF b = BddFalse THEN 0
    ELSE IF b = BddTrue THEN Pow2(Len(bdd_variables) + 1 - i)
    ELSE Pow2(b[2] - i) * (BddSatCount(b[3], b[2] + 1) + BddSatCount(b[4], b[2] + 1))

\* str(bdd): the summary "Bdd(vars=.., len=.., cardinality=..)", where len
\* counts the decision nodes and the terminals the diagram stores.
BddStr(b) ==
    <<Len(bdd_variables),
      IF b = BddFalse THEN 1 ELSE Cardinality(BddNodes(b)) + 2,
      BddSatCount(b, 1)>>

-----------------------------------------------------------------------------
(* class CanonicalBN                                                       *)

\* Rank of a variable name in Python's string order.
NameRank(n) == CASE n = "A" -> 1 [] n = "B" -> 2 [] n = "C" -> 3 [] OTHER -> 4

\* sorted(keys): the names of a set in increasing order.
RECURSIVE SortedNames(_)
SortedNames(S) ==
    IF S = {} THEN <<>>
    ELSE LET m == CHOOSE x \in S : \A y \in S : NameRank(x) <= NameRank(y)
         IN  <<m>> \o SortedNames(S \ {m})

\* __init__: self.bdds[var] = bdd_vars.eval_expression(func_str)
CanonicalBN_init(update_functions) ==
    [var \in DOMAIN update_functions |-> eval_expression(update_functions[var])]

\* __init__ raises when eval_expression does.
CanonicalBN_init_raises(update_functions) ==
    \E var \in DOMAIN update_functions : ~EvalDefined(update_functions[var])

\* __hash__: hash(tuple(sorted((var, str(bdd)) ...))).  Python's hash of the
\* tuple is a function of the tuple's value; it is modelled by that value,
\* that is, as free of collisions between different tuples.
CanonicalBN_hash(bdds) ==
    LET keys == SortedNames(DOMAIN bdds)
    IN  [k \in DOMAIN keys |-> <<keys[k], BddStr(bdds[keys[k]])>>]

\* The loop of __eq__ over self.bdds.keys(), from position k on.
RECURSIVE EqLoop(_, _, _, _)
EqLoop(self, other, keys, k) ==
    IF k > Len(keys) THEN "True"
    ELSE IF keys[k] \notin DOMAIN other THEN "KeyError"
    ELSE IF self[keys[k]] # other[keys[k]] THEN "False"
    ELSE EqLoop(self, other, keys, k + 1)

\* The same loop comparing str(bdd) in place of the diagrams.
RECURSIVE EqLoopStr(_, _, _, _)
EqLoopStr(self, other, keys, k) ==
    IF k > Len(keys) THEN "True"
    ELSE IF keys[k] \notin DOMAIN other THEN "KeyError"
    ELSE IF BddStr(self[keys[k]]) # BddStr(other[keys[k]]) THEN "False"
    ELSE EqLoopStr(self, other, keys, k + 1)

CanonicalBN_eq_str(self, other) ==
    IF DOMAIN self # DOMAIN self THEN "False"
    ELSE EqLoopStr(self, other, SortedNames(DOMAIN self), 1)

\* The same loop returning False on the first equal pair.
RECURSIVE EqLoopFlipped(_, _, _, _)
EqLoopFlipped(self, other, keys, k) ==
    IF k > Len(keys) THEN "True"
    ELSE IF keys[k] \notin DOMAIN other THEN "KeyError"
    ELSE IF self[keys[k]] = other[keys[k]] THEN "False"
    ELSE EqLoopFlipped(self, other, keys, k + 1)

CanonicalBN_eq_flipped(self, other) ==
    IF DOMAIN self # DOMAIN self THEN "False"
    ELSE EqLoopFlipped(self, other, SortedNames(DOMAIN self), 1)

\* __eq__: "True", "False", or "KeyError" when other.bdds[var] raises.  The
\* key test compares self.bdds.keys() with itself.  Every object compared
\* in the program is a CanonicalBN, so the isinstance test passes.
CanonicalBN_eq(self, other) ==
    IF DOMAIN self # DOMAIN self THEN "False"
    ELSE EqLoop(self, other, SortedNames(DOMAIN self), 1)

-----------------------------------------------------------------------------
(* Python sets of CanonicalBN objects.  A set holds one entry per class of *)
(* objects with the same hash that __eq__ reports equal.                   *)

\* key in s: some entry has the hash of key and entry == key.
PyContains(s, key) ==
    \E entry \in s :
        /\ CanonicalBN_eq(entry, key) = "True"
        /\ CanonicalBN_hash(entry) = CanonicalBN_hash(key)

\* The lookup raises when a probed entry's __eq__ does.
PyContainsRaises(s, key) ==
    \E entry \in s :
        /\ CanonicalBN_eq(entry, key) = "KeyError"
        /\ CanonicalBN_hash(entry) = CanonicalBN_hash(key)

\* s.add(key)
PyAdd(s, key) == IF PyContains(s, key) THEN s ELSE s \cup {key}

\* { f(x) for x in seq }: the elements are added in the order of seq.
RECURSIVE PySetOf(_, _, _)
PySetOf(seq, k, acc) ==
    IF k > Len(seq) THEN acc ELSE PySetOf(seq, k + 1, PyAdd(acc, seq[k]))

\* a - b
PyDifference(a, b) == {x \in a : ~PyContains(b, x)}

\* a & b: the smaller set is iterated and probed in the larger one.
PyIntersection(a, b) ==
    IF Cardinality(b) > Cardinality(a)
    THEN {x \in a : PyContains(b, x)}
    ELSE {x \in b : PyContains(a, x)}

\* Some lookup of a - b, b - a or a & b raises.
PySetOpsRaise(a, b) ==
    \/ \E x \in a : PyContainsRaises(b, x)
    \/ \E x \in b : PyContainsRaises(a, x)

-----------------------------------------------------------------------------
(* parse_observations_csv.  Text read from the file is kept as sequences   *)
(* of characters, so that strip() is an operation on the text.  A row is   *)
(* the list of cells csv.reader yields; a blank line yields the empty row. *)

IsSpace(ch) == ch = " "

RECURSIVE LStrip(_)
LStrip(s) == IF s # <<>> /\ IsSpace(Head(s)) THEN LStrip(Tail(s)) ELSE s

RECURSIVE RStrip(_)
RStrip(s) ==
    IF s # <<>> /\ IsSpace(s[Len(s)]) THEN RStrip(SubSeq(s, 1, Len(s) - 1)) ELSE s

\* str.strip()
Strip(s) == RStrip(LStrip(s))

TxtOne  == <<"1">>
TxtZero == <<"0">>

\* A variable list that keeps the ID column of the header.
HeaderVarsWithId(header) == [i \in 1..Len(header) |-> Strip(header[i])]

\* vars = [h.strip() for h in header[1:]]
HeaderVars(header) ==
    [i \in 1..(IF Len(header) > 0 THEN Len(header) - 1 ELSE 0) |-> Strip(header[i + 1])]

\* A skip test that looks only at the cells after the ID.
RowSkippedIgnoringId(row) ==
    row = <<>> \/ \A i \in 2..Len(row) : Strip(row[i]) = <<>>

\* not row or all(not c.strip() for c in row)
RowSkipped(row) ==
    row = <<>> \/ \A i \in DOMAIN row : Strip(row[i]) = <<>>

\* zip(vars, row[1:]): the positions paired with a cell.
ZipLen(vs, row) == IF Len(vs) < Len(row) - 1 THEN Len(vs) ELSE Len(row) - 1

RowCell(row, i) == Strip(row[i + 1])

\* The positions whose stripped cell is neither empty, "1" nor "0".
BadCells(vs, row) ==
    {i \in 1..ZipLen(vs, row) : RowCell(row, i) \notin {<<>>, TxtOne, TxtZero}}

RowRaises(vs, row) == BadCells(vs, row) # {}

\* The cell named by the ValueError: the first bad one.
FirstBadCell(vs, row) ==
    RowCell(row, CHOOSE i \in BadCells(vs, row) : \A j \in BadCells(vs, row) : i <= j)

\* A values dict that gives an empty cell the value False.
RowValuesDefaultFalse(vs, row) ==
    [v \in {vs[i] : i \in 1..ZipLen(vs, row)} |->
        LET i == CHOOSE j \in 1..ZipLen(vs, row) :
                    vs[j] = v /\ \A k \in 1..ZipLen(vs, row) : vs[k] = v => k <= j
        IN  RowCell(row, i) = TxtOne]

\* values: the dict built by the loop over zip(vars, row[1:]); an empty
\* cell leaves its variable out, a later column of the same name wins.
RowValues(vs, row) ==
    LET set == {i \in 1..ZipLen(vs, row) : RowCell(row, i) # <<>>}
    IN  [v \in {vs[i] : i \in set} |->
            LET i == CHOOSE j \in set : vs[j] = v /\ \A k \in set : vs[k] = v => k <= j
            IN  RowCell(row, i) = TxtOne]

\* obs_id = row[0].strip()
RowObsId(row) == Strip(row[1])

\* spec[obs_id] = values
DictSet(d, k, v) == [x \in DOMAIN d \cup {k} |-> IF x = k THEN v ELSE d[x]]

EmptyDict == [x \in {} |-> TRUE]

ErrNone         == <<"none", <<>>>>
ErrFileNotFound == <<"FileNotFoundError", <<>>>>
ErrFileEmpty    == <<"ValueError: Specification file is empty.", <<>>>>
ErrNoVars       == <<"ValueError: List of variables is empty.", <<>>>>
ErrNoObs        == <<"ValueError: Specification file has no observations.", <<>>>>
ErrBadValue(cell) == <<"ValueError: Unsupported specification value", cell>>

\* The loop "for row in reader" over the rest of the file, then the final
\* test of len(spec).
RECURSIVE ParseRows(_, _, _, _)
ParseRows(vs, rows, k, spec) ==
    IF k > Len(rows)
    THEN [err |-> IF DOMAIN spec = {} THEN ErrNoObs ELSE ErrNone, spec |-> spec]
    ELSE IF RowSkipped(rows[k]) THEN ParseRows(vs, rows, k + 1, spec)
    ELSE IF RowRaises(vs, rows[k])
    THEN [err |-> ErrBadValue(FirstBadCell(vs, rows[k])), spec |-> spec]
    ELSE ParseRows(vs, rows, k + 1,
                   DictSet(spec, RowObsId(rows[k]), RowValues(vs, rows[k])))

\* parse_observations_csv(csv_path) as one call: the exception raised
\* (ErrNone when it returns) and the mapping returned.
parse_observations_csv(file) ==
    IF ~file.exists THEN [err |-> ErrFileNotFound, spec |-> EmptyDict]
    ELSE IF file.lines = <<>> THEN [err |-> ErrFileEmpty, spec |-> EmptyDict]
    ELSE IF Len(HeaderVars(Head(file.lines))) = 0
    THEN [err |-> ErrNoVars, spec |-> EmptyDict]
    ELSE ParseRows(HeaderVars(Head(file.lines)), Tail(file.lines), 1, EmptyDict)

-----------------------------------------------------------------------------
(* main(): the adapters, the diff and the verdict.                         *)

\* get_sketchbook_expression_map: variable -> update expression of the
\* instantiated network (the network is kept as that mapping).
get_sketchbook_expression_map(bn) == [variable \in DOMAIN bn |-> bn[variable]]

\* An adapter that hands every value on as BoNesis wrote it.
get_bonesis_expression_map_untranslated(bn) == [key \in DOMAIN bn |-> bn[key]]

\* get_bonesis_expression_map: a value that is exactly "1" or "0" becomes
\* "true" or "false"; every other value is kept.
get_bonesis_expression_map(bn) ==
    [key \in DOMAIN bn |->
        IF bn[key] = ERaw1 THEN ETrue
        ELSE IF bn[key] = ERaw0 THEN EFalse
        ELSE bn[key]]

\* sketchbook_canonic_bns = {CanonicalBN(get_sketchbook_expression_map(net), ...) ...}
SketchbookCanonicBns(nets) ==
    PySetOf([k \in DOMAIN nets |-> CanonicalBN_init(get_sketchbook_expression_map(nets[k]))],
            1, {})

\* bonesis_canonic_bns = {CanonicalBN(get_bonesis_expression_map(net), ...) ...}
BonesisCanonicBns(nets) ==
    PySetOf([k \in DOMAIN nets |-> CanonicalBN_init(get_bonesis_expression_map(nets[k]))],
            1, {})

\* Some CanonicalBN(...) of the two comprehensions raises.
CanonicRaises(snets, bnets) ==
    \/ \E k \in DOMAIN snets :
        CanonicalBN_init_raises(get_sketchbook_expression_map(snets[k]))
    \/ \E k \in DOMAIN bnets :
        CanonicalBN_init_raises(get_bonesis_expression_map(bnets[k]))

\* A difference taken the wrong way round.
OnlyInBonesisSwapped(sketchbook, bonesis) == PyDifference(sketchbook, bonesis)

\* only_in_sketchbook = sketchbook_canonic_bns - bonesis_canonic_bns
OnlyInSketchbook(sketchbook, bonesis) == PyDifference(sketchbook, bonesis)

\* only_in_bonesis = bonesis_canonic_bns - sketchbook_canonic_bns
OnlyInBonesis(sketchbook, bonesis) == PyDifference(bonesis, sketchbook)

\* in_both = sketchbook_canonic_bns & bonesis_canonic_bns
InBoth(sketchbook, bonesis) == PyIntersection(sketchbook, bonesis)

\* A verdict that matches as soon as one of the differences is empty.
VerdictEitherEmpty(only_s, only_b) ==
    IF Cardinality(only_s) = 0 \/ Cardinality(only_b) = 0 THEN "MATCH" ELSE "DIFFER"

\* "Results match exactly!" / "Results differ!"
Verdict(only_s, only_b) ==
    IF Cardinality(only_s) = 0 /\ Cardinality(only_b) = 0 THEN "MATCH" ELSE "DIFFER"

-----------------------------------------------------------------------------
(* Inputs: update expressions and candidate networks (update_functions).   *)

XA == EVar("A")
XB == EVar("B")

ExprPool ==
    { XA, XB, ETrue, EFalse,
      EOr(XA, XB), EOr(XA, EAnd(ENot(XA), XB)),
      EOr(XB, ENot(XB)), EAnd(XA, ENot(XA)),
      EAnd(XA, XB), ENot(EOr(ENot(XA), ENot(XB))) }

\* Networks over exactly the variables of the shared domain.
DomainNets == [BddVarNames -> ExprPool]

\* Networks whose variable set differs from the shared domain.
NarrowNets == { [n \in {"A"} |-> e] : e \in {XA, ETrue} }

WideNets ==
    { [n \in {"A", "B", "C"} |-> IF n = "A" THEN XA ELSE IF n = "B" THEN XB ELSE e]
        : e \in {EOr(XA, XB), XA} }

\* A network with a third variable that one of its expressions mentions:
\* the shared domain has no such variable.
UnknownVarNet ==
    [n \in {"A", "B", "C"} |->
        IF n = "A" THEN EOr(XA, EVar("C")) ELSE IF n = "B" THEN XA ELSE XB]

CanonNets == DomainNets \cup NarrowNets \cup WideNets \cup {UnknownVarNet}

\* The logical content of a network: a truth table per variable.
Semantics(net) == [var \in DOMAIN net |-> TruthTable(net[var])]

\* Text of the observation CSV.
TxtID == <<"I", "D">>
TxtO1 == <<"o", "1">>
TxtA  == <<"A">>
TxtB  == <<"B">>

\* Header rows: a blank line, an ID column alone, one or two variable
\* columns (with surrounding whitespace to strip).
HeaderPool ==
    { <<>>, <<TxtID>>, <<TxtID, <<" ", "A">>>>, <<TxtID, TxtA, <<"B", " ">>>> }

IdTokens == { TxtO1, <<"o", "2", " ">>, <<>> }

CellTokens  == { <<>>, <<" ">>, <<"0">>, <<"1">>, <<"2">> }
CellTokens2 == { <<>>, <<"0">>, <<" ", "1">>, <<"2", " ">> }

\* Data rows: a blank line, or an ID followed by zero, one or two cells.
RowPool ==
    {<<>>}
    \cup { <<id>> : id \in IdTokens }
    \cup { <<id, a>> : id \in IdTokens, a \in CellTokens }
    \cup { <<id, a, b>> : id \in IdTokens, a \in CellTokens, b \in CellTokens2 }

\* The number of data rows read from one file.
MaxRows == 2

\* Networks a Sketchbook archive instantiates: all over the shared domain,
\* the second with a constant function, the last two the same function
\* written twice.
Net(ea, eb) == [n \in {"A", "B"} |-> IF n = "A" THEN ea ELSE eb]

SketchbookPool ==
    { Net(EOr(XA, XB), XA),
      Net(ETrue, XA),
      Net(EAnd(XA, XB), XA),
      Net(ENot(EOr(ENot(XA), ENot(XB))), XA) }

\* Networks BoNesis enumerates from the partially specified model: over the
\* variables of that model, which may differ from those of the archive.
BonesisPool ==
    { Net(EOr(XA, EAnd(ENot(XA), XB)), XA),
      Net(ERaw1, XA),
      Net(XB, XA),
      Net(XA, XA) }
    \cup { [n \in {"A"} |-> e] : e \in {XA, ERaw0} }
    \cup { [n \in {"A", "B", "C"} |->
              IF n = "A" THEN EOr(XA, XB) ELSE IF n = "B" THEN XA ELSE XB],
           UnknownVarNet }

\* The observation files handed to main().
CsvFile(exists, lines) == [exists |-> exists, lines |-> lines]

MainCsvFiles ==
    { CsvFile(TRUE, << <<TxtID, TxtA, TxtB>>,
                       <<TxtO1, <<"1">>, <<>>>>,
                       <<<<"o", "2">>, <<"0">>, <<"1">>>> >>),
      CsvFile(TRUE, << <<TxtID, TxtA>>, <<TxtO1, <<"2">>>> >>),
      CsvFile(TRUE, << <<TxtID, TxtA>>, <<<<>>, <<>>>> >>),
      CsvFile(FALSE, <<>>) }

\* The number of networks each tool produces in one run.
MaxSketchbook == 3
MaxBonesis == 2

SeqsUpTo(S, n) == UNION {[1..k -> S] : k \in 0..n}

NoFp  == <<>>
NoOut == [eq_xy |-> "none", eq_yx |-> "none", hash_x |-> <<>>, hash_y |-> <<>>]

-----------------------------------------------------------------------------
(* SpecCanon: build two fingerprints against the shared domain, then       *)
(* evaluate a == b, b == a, hash(a) and hash(b).                           *)

CanonStart ==
    /\ cn_x \in CanonNets
    /\ cn_y \in CanonNets
    /\ cn_fx = NoFp
    /\ cn_fy = NoFp
    /\ cn_out = NoOut
    /\ cn_pc = "start"

CanonIdle ==
    /\ cn_x = <<>>
    /\ cn_y = <<>>
    /\ cn_fx = NoFp
    /\ cn_fy = NoFp
    /\ cn_out = NoOut
    /\ cn_pc = "idle"

\* CanonicalBN(x, bdd_variables) and CanonicalBN(y, bdd_variables)
CanonBuild ==
    /\ cn_pc = "start"
    /\ ~CanonicalBN_init_raises(cn_x)
    /\ ~CanonicalBN_init_raises(cn_y)
    /\ cn_fx' = CanonicalBN_init(cn_x)
    /\ cn_fy' = CanonicalBN_init(cn_y)
    /\ cn_pc' = "built"
    /\ UNCHANGED <<cn_x, cn_y, cn_out>>
    /\ UNCHANGED <<csvVars, mVars, bVars>>

\* eval_expression raises: no fingerprint is constructed.
CanonBuildFails ==
    /\ cn_pc = "start"
    /\ (CanonicalBN_init_raises(cn_x) \/ CanonicalBN_init_raises(cn_y))
    /\ cn_pc' = "raised"
    /\ UNCHANGED <<cn_x, cn_y, cn_fx, cn_fy, cn_out>>
    /\ UNCHANGED <<csvVars, mVars, bVars>>

CanonCompare ==
    /\ cn_pc = "built"
    /\ cn_out' = [eq_xy  |-> CanonicalBN_eq(cn_fx, cn_fy),
                  eq_yx  |-> CanonicalBN_eq(cn_fy, cn_fx),
                  hash_x |-> CanonicalBN_hash(cn_fx),
                  hash_y |-> CanonicalBN_hash(cn_fy)]
    /\ cn_pc' = "compared"
    /\ UNCHANGED <<cn_x, cn_y, cn_fx, cn_fy>>
    /\ UNCHANGED <<csvVars, mVars, bVars>>

-----------------------------------------------------------------------------
(* SpecCsv: parse_observations_csv(csv_path), one reader step per action.  *)

CsvStart ==
    /\ csv_header = <<>>
    /\ csv_rows = <<>>
    /\ csv_vars = <<>>
    /\ csv_spec = EmptyDict
    /\ csv_err = ErrNone
    /\ csv_pc = "call"

CsvIdle ==
    /\ csv_header = <<>>
    /\ csv_rows = <<>>
    /\ csv_vars = <<>>
    /\ csv_spec = EmptyDict
    /\ csv_err = ErrNone
    /\ csv_pc = "idle"

CsvRaise(err) ==
    /\ csv_pc' = "raised"
    /\ csv_err' = err

\* if not os.path.exists(csv_path): raise FileNotFoundError
CsvFileNotFound ==
    /\ csv_pc = "call"
    /\ CsvRaise(ErrFileNotFound)
    /\ UNCHANGED <<csv_header, csv_rows, csv_vars, csv_spec>>
    /\ UNCHANGED <<cnVars, mVars, bVars>>

\* next(reader) raises on a file without any line
CsvFileEmpty ==
    /\ csv_pc = "call"
    /\ CsvRaise(ErrFileEmpty)
    /\ UNCHANGED <<csv_header, csv_rows, csv_vars, csv_spec>>
    /\ UNCHANGED <<cnVars, mVars, bVars>>

\* header = next(reader); vars = [...]; some variable column exists
CsvReadHeader ==
    /\ csv_pc = "call"
    /\ \E header \in HeaderPool :
        /\ Len(HeaderVars(header)) # 0
        /\ csv_header' = header
        /\ csv_vars' = HeaderVars(header)
    /\ csv_pc' = "rows"
    /\ UNCHANGED <<csv_rows, csv_spec, csv_err>>
    /\ UNCHANGED <<cnVars, mVars, bVars>>

\* header = next(reader); len(vars) == 0: raise ValueError
CsvHeaderNoVars ==
    /\ csv_pc = "call"
    /\ \E header \in HeaderPool :
        /\ Len(HeaderVars(header)) = 0
        /\ csv_header' = header
        /\ csv_vars' = HeaderVars(header)
    /\ CsvRaise(ErrNoVars)
    /\ UNCHANGED <<csv_rows, csv_spec>>
    /\ UNCHANGED <<cnVars, mVars, bVars>>

\* for row in reader: the row is empty or whitespace-only: continue
CsvSkipRow ==
    /\ csv_pc = "rows"
    /\ Len(csv_rows) < MaxRows
    /\ \E row \in RowPool :
        /\ RowSkipped(row)
        /\ csv_rows' = Append(csv_rows, row)
    /\ UNCHANGED <<csv_header, csv_vars, csv_spec, csv_err, csv_pc>>
    /\ UNCHANGED <<cnVars, mVars, bVars>>

\* for row in reader: every paired cell is "", "1" or "0": spec[obs_id] = values
CsvStoreRow ==
    /\ csv_pc = "rows"
    /\ Len(csv_rows) < MaxRows
    /\ \E row \in RowPool :
        /\ ~RowSkipped(row)
        /\ ~RowRaises(csv_vars, row)
        /\ csv_rows' = Append(csv_rows, row)
        /\ csv_spec' = DictSet(csv_spec, RowObsId(row), RowValues(csv_vars, row))
    /\ UNCHANGED <<csv_header, csv_vars, csv_err, csv_pc>>
    /\ UNCHANGED <<cnVars, mVars, bVars>>

\* for row in reader: some paired cell holds another token: raise ValueError
CsvBadCell ==
    /\ csv_pc = "rows"
    /\ Len(csv_rows) < MaxRows
    /\ \E row \in RowPool :
        /\ ~RowSkipped(row)
        /\ RowRaises(csv_vars, row)
        /\ csv_rows' = Append(csv_rows, row)
        /\ CsvRaise(ErrBadValue(FirstBadCell(csv_vars, row)))
    /\ UNCHANGED <<csv_header, csv_vars, csv_spec>>
    /\ UNCHANGED <<cnVars, mVars, bVars>>

\* the reader is exhausted and len(spec) == 0: raise ValueError
CsvNoObservations ==
    /\ csv_pc = "rows"
    /\ DOMAIN csv_spec = {}
    /\ CsvRaise(ErrNoObs)
    /\ UNCHANGED <<csv_header, csv_rows, csv_vars, csv_spec>>
    /\ UNCHANGED <<cnVars, mVars, bVars>>

\* the reader is exhausted: return spec
CsvReturn ==
    /\ csv_pc = "rows"
    /\ DOMAIN csv_spec # {}
    /\ csv_pc' = "returned"
    /\ UNCHANGED <<csv_header, csv_rows, csv_vars, csv_spec, csv_err>>
    /\ UNCHANGED <<cnVars, mVars, bVars>>

-----------------------------------------------------------------------------
(* Spec: one run of main(sketchbook_zip_path, bonesis_psbn_path,           *)
(* bonesis_data_path, universal_fps).                                      *)

NoStdout == [in_both |-> 0, only_in_sketchbook |-> 0, only_in_bonesis |-> 0,
             verdict |-> "none"]

\* The progress lines main() prints between its steps.
LogProcessing == "Processing Sketchbook results..."
LogLoadedRaw  == "Loaded raw Sketchbook results from zip"
LogExtractedSketchbook == "Extracted Sketchbook candidate networks."
LogComputing  == "Computing BoNesis results..."
LogExtractedBonesis == "Extracted BoNesis candidate networks."
LogComparing  == "Comparing the results..."

ErrArchive == <<"archive cannot be read", <<>>>>
ErrEval    == <<"eval_expression raises", <<>>>>
ErrKey     == <<"KeyError", <<>>>>

MainBlank(pc) ==
    /\ sketchbook_networks = <<>>
    /\ data = EmptyDict
    /\ bonesis_networks = <<>>
    /\ sketchbook_canonic_bns = {}
    /\ bonesis_canonic_bns = {}
    /\ only_in_sketchbook = {}
    /\ only_in_bonesis = {}
    /\ in_both = {}
    /\ stdout = NoStdout
    /\ m_log = <<>>
    /\ m_err = ErrNone
    /\ m_pc = pc

MainStart == MainBlank("start")
MainIdle  == MainBlank("idle")

\* The archive is opened and every colour instantiated.
MainLoadSketchbook ==
    /\ m_pc = "start"
    /\ \E nets \in SeqsUpTo(SketchbookPool, MaxSketchbook) :
        sketchbook_networks' = nets
    /\ m_log' = m_log \o <<LogProcessing, LogLoadedRaw, LogExtractedSketchbook>>
    /\ m_pc' = "sketchbook_loaded"
    /\ UNCHANGED <<data, bonesis_networks, sketchbook_canonic_bns, bonesis_canonic_bns,
                   only_in_sketchbook, only_in_bonesis, in_both, stdout, m_err>>
    /\ UNCHANGED <<cnVars, csvVars, bVars>>

\* zipfile.ZipFile / archive.open / from_aeon raises.
MainArchiveFails ==
    /\ m_pc = "start"
    /\ m_err' = ErrArchive
    /\ m_log' = Append(m_log, LogProcessing)
    /\ m_pc' = "raised"
    /\ UNCHANGED <<sketchbook_networks, data, bonesis_networks, sketchbook_canonic_bns,
                   bonesis_canonic_bns, only_in_sketchbook, only_in_bonesis, in_both,
                   stdout>>
    /\ UNCHANGED <<cnVars, csvVars, bVars>>

\* data = parse_observations_csv(bonesis_data_path) returns; the solver
\* enumerates the networks of the partially specified model.
MainLoadBonesis ==
    /\ m_pc = "sketchbook_loaded"
    /\ \E file \in MainCsvFiles :
        /\ parse_observations_csv(file).err = ErrNone
        /\ data' = parse_observations_csv(file).spec
    /\ \E psbn_vars \in {DOMAIN n : n \in BonesisPool} :
        \E nets \in SeqsUpTo({n \in BonesisPool : DOMAIN n = psbn_vars}, MaxBonesis) :
            bonesis_networks' = nets
    /\ m_log' = m_log \o <<LogComputing, LogExtractedBonesis>>
    /\ m_pc' = "bonesis_loaded"
    /\ UNCHANGED <<sketchbook_networks, sketchbook_canonic_bns, bonesis_canonic_bns,
                   only_in_sketchbook, only_in_bonesis, in_both, stdout, m_err>>
    /\ UNCHANGED <<cnVars, csvVars, bVars>>

\* A parser that is called, and raises, before the archive is opened.
MainParseFailsFirst ==
    /\ m_pc = "start"
    /\ \E file \in MainCsvFiles :
        /\ parse_observations_csv(file).err # ErrNone
        /\ m_err' = parse_observations_csv(file).err
    /\ m_log' = Append(m_log, LogComputing)
    /\ m_pc' = "raised"
    /\ UNCHANGED <<sketchbook_networks, data, bonesis_networks, sketchbook_canonic_bns,
                   bonesis_canonic_bns, only_in_sketchbook, only_in_bonesis, in_both,
                   stdout>>
    /\ UNCHANGED <<cnVars, csvVars, bVars>>

\* data = parse_observations_csv(bonesis_data_path) raises.
MainParseFails ==
    /\ m_pc = "sketchbook_loaded"
    /\ \E file \in MainCsvFiles :
        /\ parse_observations_csv(file).err # ErrNone
        /\ m_err' = parse_observations_csv(file).err
    /\ m_log' = Append(m_log, LogComputing)
    /\ m_pc' = "raised"
    /\ UNCHANGED <<sketchbook_networks, data, bonesis_networks, sketchbook_canonic_bns,
                   bonesis_canonic_bns, only_in_sketchbook, only_in_bonesis, in_both,
                   stdout>>
    /\ UNCHANGED <<cnVars, csvVars, bVars>>

\* The two set comprehensions over CanonicalBN(...).
MainCanonicalize ==
    /\ m_pc = "bonesis_loaded"
    /\ ~CanonicRaises(sketchbook_networks, bonesis_networks)
    /\ sketchbook_canonic_bns' = SketchbookCanonicBns(sketchbook_networks)
    /\ bonesis_canonic_bns' = BonesisCanonicBns(bonesis_networks)
    /\ m_log' = Append(m_log, LogComparing)
    /\ m_pc' = "canonical"
    /\ UNCHANGED <<sketchbook_networks, data, bonesis_networks, only_in_sketchbook,
                   only_in_bonesis, in_both, stdout, m_err>>
    /\ UNCHANGED <<cnVars, csvVars, bVars>>

\* eval_expression raises inside one of the comprehensions.
MainCanonicalizeFails ==
    /\ m_pc = "bonesis_loaded"
    /\ CanonicRaises(sketchbook_networks, bonesis_networks)
    /\ m_err' = ErrEval
    /\ m_log' = Append(m_log, LogComparing)
    /\ m_pc' = "raised"
    /\ UNCHANGED <<sketchbook_networks, data, bonesis_networks, sketchbook_canonic_bns,
                   bonesis_canonic_bns, only_in_sketchbook, only_in_bonesis, in_both,
                   stdout>>
    /\ UNCHANGED <<cnVars, csvVars, bVars>>

\* The two differences and the intersection; a lookup whose __eq__ raises
\* ends the run.
MainDiff ==
    /\ m_pc = "canonical"
    /\ IF PySetOpsRaise(sketchbook_canonic_bns, bonesis_canonic_bns)
       THEN /\ m_err' = ErrKey
            /\ m_pc' = "raised"
            /\ UNCHANGED <<only_in_sketchbook, only_in_bonesis, in_both>>
       ELSE /\ only_in_sketchbook' = OnlyInSketchbook(sketchbook_canonic_bns, bonesis_canonic_bns)
            /\ only_in_bonesis' = OnlyInBonesis(sketchbook_canonic_bns, bonesis_canonic_bns)
            /\ in_both' = InBoth(sketchbook_canonic_bns, bonesis_canonic_bns)
            /\ m_pc' = "compared"
            /\ UNCHANGED m_err
    /\ UNCHANGED <<sketchbook_networks, data, bonesis_networks, sketchbook_canonic_bns,
                   bonesis_canonic_bns, stdout, m_log>>
    /\ UNCHANGED <<cnVars, csvVars, bVars>>

\* The three counts and the verdict are printed.
MainReport ==
    /\ m_pc = "compared"
    /\ stdout' = [in_both |-> Cardinality(in_both),
                  only_in_sketchbook |-> Cardinality(only_in_sketchbook),
                  only_in_bonesis |-> Cardinality(only_in_bonesis),
                  verdict |-> Verdict(only_in_sketchbook, only_in_bonesis)]
    /\ m_pc' = "done"
    /\ UNCHANGED <<sketchbook_networks, data, bonesis_networks, sketchbook_canonic_bns,
                   bonesis_canonic_bns, only_in_sketchbook, only_in_bonesis, in_both,
                   m_log, m_err>>
    /\ UNCHANGED <<cnVars, csvVars, bVars>>

-----------------------------------------------------------------------------
(* run_compare_all.py: run_comparisons_for_all_models(models_dir,          *)
(* universal_fps).  A file of the directory is kept as its stem and its    *)
(* extension; the stem k stands for a name whose place in the sorted       *)
(* listing is k.                                                           *)

\* The number of stems a directory may hold files of.
MaxModels == 3

Stems == 1..MaxModels

\* The files one stem may have: none, an archive alone, an archive with one
\* of its companions, the complete triplet, companions without an archive.
ExtSets ==
    { {}, {"zip"}, {"zip", "aeon"}, {"zip", "csv"}, {"zip", "aeon", "csv"},
      {"aeon", "csv"} }

\* The directories handed to the function: a missing one, or one with the
\* files of each stem.
ModelsDirs ==
    { [exists |-> FALSE, files |-> [st \in Stems |-> {}]] }
    \cup { [exists |-> TRUE, files |-> f] : f \in [Stems -> ExtSets] }

\* models_path.glob("*.zip")
Glob(dir, ext) == {st \in DOMAIN dir.files : ext \in dir.files[st]}

\* A listing in descending order.
RECURSIVE SortedDescending(_)
SortedDescending(S) ==
    IF S = {} THEN <<>>
    ELSE LET hi == CHOOSE x \in S : \A y \in S : y <= x
         IN  <<hi>> \o SortedDescending(S \ {hi})

\* sorted(...)
RECURSIVE Sorted(_)
Sorted(S) ==
    IF S = {} THEN <<>>
    ELSE LET lo == CHOOSE x \in S : \A y \in S : x <= y
         IN  <<lo>> \o Sorted(S \ {lo})

\* A test that is satisfied by any file of the stem.
FileExistsAnyExtension(dir, st, ext) == dir.files[st] # {}

\* aeon_file.exists() / csv_file.exists()
FileExists(dir, st, ext) == ext \in dir.files[st]

\* cmd: the interpreter, the script, the three paths and the optional flag.
Cmd(st, flag) ==
    [script |-> "compare_sketchbook_bonesis.py", zip_file |-> st,
     aeon_file |-> st, csv_file |-> st, universal_fps |-> flag]

PhraseMatch  == "Results match exactly!"
PhraseDiffer == "Results differ!"

\* What subprocess.run may return: the exit code of the child and which of
\* the two phrases its output holds.
CompletedProcesses ==
    [returncode : {0, 1}, stdout : {{}, {PhraseMatch}, {PhraseDiffer}}]

\* How a call of subprocess.run ended: it returned a completed process, or
\* it raised TimeoutExpired or another exception.
NoOutcome == [kind |-> "none", returncode |-> 0, stdout |-> {}]
Returned(result) ==
    [kind |-> "returned", returncode |-> result.returncode, stdout |-> result.stdout]
Raised(exception) == [kind |-> exception, returncode |-> 0, stdout |-> {}]

\* A classification that reads the output without looking at the exit code.
StatusOfOutputOnly(result) ==
    IF PhraseMatch \in result.stdout THEN "MATCH"
    ELSE IF PhraseDiffer \in result.stdout THEN "DIFFER"
    ELSE IF result.returncode = 0 THEN "UNKNOWN"
    ELSE "ERROR"

\* The status appended for a call of subprocess.run that returned.
StatusOf(result) ==
    IF result.returncode = 0
    THEN IF PhraseMatch \in result.stdout THEN "MATCH"
         ELSE IF PhraseDiffer \in result.stdout THEN "DIFFER"
         ELSE "UNKNOWN"
    ELSE "ERROR"

\* The first line printed for a call that returned.
OutcomeLine(result) == IF result.returncode = 0 THEN "Success" ELSE "Failed"

\* A printed line: its kind, the archive it is about (0 when none), a text
\* and a number.
Line(kind, st, text, n) == [kind |-> kind, stem |-> st, text |-> text, n |-> n]

\* Counts that stay at 1 for a status seen again.
RECURSIVE StatusCountsNoSum(_, _, _)
StatusCountsNoSum(res, k, counts) ==
    IF k > Len(res) THEN counts
    ELSE StatusCountsNoSum(res, k + 1,
            [s \in DOMAIN counts \cup {res[k][2]} |->
                IF s = res[k][2] THEN 1 ELSE counts[s]])

\* status_counts[status] = status_counts.get(status, 0) + 1, over results
RECURSIVE StatusCounts(_, _, _)
StatusCounts(res, k, counts) ==
    IF k > Len(res) THEN counts
    ELSE StatusCounts(res, k + 1,
            [s \in DOMAIN counts \cup {res[k][2]} |->
                IF s = res[k][2]
                THEN (IF s \in DOMAIN counts THEN counts[s] ELSE 0) + 1
                ELSE counts[s]])

\* The order of sorted(status_counts.items()).
StatusOrder == <<"DIFFER", "ERROR", "EXCEPTION", "MATCH", "TIMEOUT", "UNKNOWN">>

\* The rows of the summary, one per result in the order of the list.
SummaryRows(res) == [k \in DOMAIN res |-> Line("row", res[k][1], res[k][2], 0)]

\* The count lines, one per status present, sorted by status.
RECURSIVE CountLines(_, _)
CountLines(counts, k) ==
    IF k > Len(StatusOrder) THEN <<>>
    ELSE (IF StatusOrder[k] \in DOMAIN counts
          THEN <<Line("count", 0, StatusOrder[k], counts[StatusOrder[k]])>>
          ELSE <<>>) \o CountLines(counts, k + 1)

BatchBlank(pc) ==
    /\ zip_files = <<>>
    /\ idx = 0
    /\ results = <<>>
    /\ launched = <<>>
    /\ run_outcome = NoOutcome
    /\ b_out = <<>>
    /\ status_counts = EmptyDict
    /\ b_pc = pc

BatchStart ==
    /\ models_dir \in ModelsDirs
    /\ universal_fps \in BOOLEAN
    /\ BatchBlank("start")

BatchIdle ==
    /\ models_dir = [exists |-> FALSE, files |-> [st \in Stems |-> {}]]
    /\ universal_fps = FALSE
    /\ BatchBlank("idle")

\* if not models_path.exists(): print, sys.exit(1)
BatchDirMissing ==
    /\ b_pc = "start"
    /\ ~models_dir.exists
    /\ b_out' = Append(b_out, Line("error", 0, "Directory does not exist", 0))
    /\ b_pc' = "exit1"
    /\ UNCHANGED <<models_dir, universal_fps, zip_files, idx, results, launched,
                   run_outcome, status_counts>>
    /\ UNCHANGED <<cnVars, csvVars, mVars>>

\* if not zip_files: print, sys.exit(1)
BatchNoArchives ==
    /\ b_pc = "start"
    /\ models_dir.exists
    /\ Glob(models_dir, "zip") = {}
    /\ b_out' = Append(b_out, Line("error", 0, "No .zip files found", 0))
    /\ b_pc' = "exit1"
    /\ UNCHANGED <<models_dir, universal_fps, zip_files, idx, results, launched,
                   run_outcome, status_counts>>
    /\ UNCHANGED <<cnVars, csvVars, mVars>>

\* zip_files = sorted(models_path.glob("*.zip")); results = []; the loop starts
BatchDiscover ==
    /\ b_pc = "start"
    /\ models_dir.exists
    /\ Glob(models_dir, "zip") # {}
    /\ zip_files' = Sorted(Glob(models_dir, "zip"))
    /\ b_out' = Append(b_out, Line("found", 0, "Sketchbook result files",
                                   Cardinality(Glob(models_dir, "zip"))))
    /\ idx' = 1
    /\ results' = <<>>
    /\ b_pc' = "loop"
    /\ UNCHANGED <<models_dir, universal_fps, launched, run_outcome, status_counts>>
    /\ UNCHANGED <<cnVars, csvVars, mVars>>

\* if not aeon_file.exists(): print "Skipping ... (no matching .aeon)"; continue
BatchSkipNoAeon ==
    /\ b_pc = "loop"
    /\ idx <= Len(zip_files)
    /\ ~FileExists(models_dir, zip_files[idx], "aeon")
    /\ b_out' = Append(b_out, Line("Skipping", zip_files[idx], "no matching .aeon", idx))
    /\ idx' = idx + 1
    /\ UNCHANGED <<models_dir, universal_fps, zip_files, results, launched,
                   run_outcome, status_counts, b_pc>>
    /\ UNCHANGED <<cnVars, csvVars, mVars>>

\* if not csv_file.exists(): print "Skipping ... (no matching .csv)"; continue
BatchSkipNoCsv ==
    /\ b_pc = "loop"
    /\ idx <= Len(zip_files)
    /\ FileExists(models_dir, zip_files[idx], "aeon")
    /\ ~FileExists(models_dir, zip_files[idx], "csv")
    /\ b_out' = Append(b_out, Line("Skipping", zip_files[idx], "no matching .csv", idx))
    /\ idx' = idx + 1
    /\ UNCHANGED <<models_dir, universal_fps, zip_files, results, launched,
                   run_outcome, status_counts, b_pc>>
    /\ UNCHANGED <<cnVars, csvVars, mVars>>

\* print "Comparing ..."; subprocess.run(cmd, ..., timeout=600) is entered
BatchRun ==
    /\ b_pc = "loop"
    /\ idx <= Len(zip_files)
    /\ FileExists(models_dir, zip_files[idx], "aeon")
    /\ FileExists(models_dir, zip_files[idx], "csv")
    /\ b_out' = Append(b_out, Line("Comparing", zip_files[idx], "", idx))
    /\ launched' = Append(launched, Cmd(zip_files[idx], universal_fps))
    /\ b_pc' = "running"
    /\ UNCHANGED <<models_dir, universal_fps, zip_files, idx, results, run_outcome,
                   status_counts>>
    /\ UNCHANGED <<cnVars, csvVars, mVars>>

\* results.append((base_name, status)); print the outcome; next archive
BatchRecord(status, text, outcome) ==
    /\ run_outcome' = outcome
    /\ results' = Append(results, <<zip_files[idx], status>>)
    /\ b_out' = Append(b_out, Line("outcome", zip_files[idx], text, 0))
    /\ idx' = idx + 1
    /\ b_pc' = "loop"
    /\ UNCHANGED <<models_dir, universal_fps, zip_files, launched, status_counts>>
    /\ UNCHANGED <<cnVars, csvVars, mVars>>

\* subprocess.run returned: MATCH, DIFFER or UNKNOWN on exit code 0, ERROR
\* on any other
BatchReturned ==
    /\ b_pc = "running"
    /\ \E result \in CompletedProcesses :
        BatchRecord(StatusOf(result), OutcomeLine(result), Returned(result))

\* A timeout after which the function ends without a summary.
BatchTimeoutEnds ==
    /\ b_pc = "running"
    /\ b_out' = Append(b_out, Line("outcome", zip_files[idx], "Timeout (600s)", 0))
    /\ b_pc' = "exit1"
    /\ UNCHANGED <<models_dir, universal_fps, zip_files, idx, results, launched,
                   run_outcome, status_counts>>
    /\ UNCHANGED <<cnVars, csvVars, mVars>>

\* except subprocess.TimeoutExpired
BatchTimeout ==
    /\ b_pc = "running"
    /\ BatchRecord("TIMEOUT", "Timeout (600s)", Raised("TimeoutExpired"))

\* except Exception as e
BatchException ==
    /\ b_pc = "running"
    /\ BatchRecord("EXCEPTION", "Error", Raised("Exception"))

\* The loop is over: the summary rows, then the counts by status.
BatchSummary ==
    /\ b_pc = "loop"
    /\ idx > Len(zip_files)
    /\ status_counts' = StatusCounts(results, 1, EmptyDict)
    /\ b_out' = b_out \o <<Line("SUMMARY", 0, "", 0)>> \o SummaryRows(results)
                      \o CountLines(StatusCounts(results, 1, EmptyDict), 1)
    /\ b_pc' = "done"
    /\ UNCHANGED <<models_dir, universal_fps, zip_files, idx, results, launched,
                   run_outcome>>
    /\ UNCHANGED <<cnVars, csvVars, mVars>>

-----------------------------------------------------------------------------
vars == <<cnVars, csvVars, mVars, bVars>>

InitCanon == CanonStart /\ CsvIdle /\ MainIdle /\ BatchIdle

NextCanon ==
    \/ CanonBuild
    \/ CanonBuildFails
    \/ CanonCompare

SpecCanon == InitCanon /\ [][NextCanon]_vars

InitCsv == CsvStart /\ CanonIdle /\ MainIdle /\ BatchIdle

NextCsv ==
    \/ CsvFileNotFound
    \/ CsvFileEmpty
    \/ CsvReadHeader
    \/ CsvHeaderNoVars
    \/ CsvSkipRow
    \/ CsvStoreRow
    \/ CsvBadCell
    \/ CsvNoObservations
    \/ CsvReturn

SpecCsv == InitCsv /\ [][NextCsv]_vars

Init == MainStart /\ CanonIdle /\ CsvIdle /\ BatchIdle

Next ==
    \/ MainLoadSketchbook
    \/ MainArchiveFails
    \/ MainLoadBonesis
    \/ MainParseFails
    \/ MainCanonicalize
    \/ MainCanonicalizeFails
    \/ MainDiff
    \/ MainReport

Spec == Init /\ [][Next]_vars

InitBatch == BatchStart /\ CanonIdle /\ CsvIdle /\ MainIdle

NextBatch ==
    \/ BatchDirMissing
    \/ BatchNoArchives
    \/ BatchDiscover
    \/ BatchSkipNoAeon
    \/ BatchSkipNoCsv
    \/ BatchRun
    \/ BatchException
    \/ BatchTimeout
    \/ BatchReturned
    \/ BatchSummary

SpecBatch == InitBatch /\ [][NextBatch]_vars

\* The function runs on until it ends, and every call of subprocess.run
\* returns or raises.
SpecBatchFair == InitBatch /\ [][NextBatch]_vars /\ WF_vars(NextBatch)

-----------------------------------------------------------------------------
(* Claims about the fingerprint (SpecCanon).                               *)

SameVariables == DOMAIN cn_x = DOMAIN cn_y

\* C1: two update-function maps over the same variable set whose
\* expressions are pairwise logically equivalent (equal truth tables over
\* the shared domain) give fingerprints that compare equal under __eq__.
C1_EquivalentCompareEqual ==
    (cn_pc = "compared" /\ SameVariables /\ Semantics(cn_x) = Semantics(cn_y))
        => cn_out.eq_xy = "True"

\* Two syntactically different, logically equivalent maps were compared.
C1_Witness ==
    /\ cn_pc = "compared"
    /\ SameVariables
    /\ cn_x # cn_y
    /\ Semantics(cn_x) = Semantics(cn_y)
    /\ cn_x["A"] = EOr(XA, EAnd(ENot(XA), XB))
    /\ cn_y["A"] = EOr(XA, XB)

\* C2: two update-function maps over the same variable set in which some
\* variable has logically distinct expressions give fingerprints that
\* compare unequal under __eq__.
C2_DistinctCompareUnequal ==
    (cn_pc = "compared" /\ SameVariables /\ Semantics(cn_x) # Semantics(cn_y))
        => cn_out.eq_xy = "False"

\* Two maps that differ logically but whose diagrams have the same summary
\* string (A and B: same size, same cardinality) were compared.
C2_Witness ==
    /\ cn_pc = "compared"
    /\ SameVariables
    /\ Semantics(cn_x) # Semantics(cn_y)
    /\ cn_out.hash_x = cn_out.hash_y

\* C3: for every pair of fingerprints, whatever their variable sets,
\* a == b returning True implies hash(a) = hash(b).
C3_EqualImpliesSameHash ==
    (cn_pc = "compared" /\ cn_out.eq_xy = "True")
        => cn_out.hash_x = cn_out.hash_y

C19_EqSymmetricTotal ==
    (cn_pc = "compared") =>
        /\ cn_out.eq_xy \in {"True", "False"}
        /\ cn_out.eq_yx \in {"True", "False"}
        /\ cn_out.eq_xy = cn_out.eq_yx
        /\ (cn_out.eq_xy = "True") =>
              (DOMAIN cn_fx = DOMAIN cn_fy /\ cn_fx = cn_fy)

-----------------------------------------------------------------------------
(* Claims about one run of main() (Spec).                                  *)

\* The function a diagram denotes, read off the diagram itself.
RECURSIVE BddHolds(_, _)
BddHolds(b, val) ==
    IF IsTerminal(b) THEN b[2]
    ELSE IF bdd_variables[b[2]] \in val THEN BddHolds(b[4], val)
    ELSE BddHolds(b[3], val)

FpSemantics(fp) ==
    [var \in DOMAIN fp |-> {val \in SUBSET BddVarNames : BddHolds(fp[var], val)}]

FpSemSet(fps) == {FpSemantics(fp) : fp \in fps}

\* The candidate sets as sets of truth-table tuples, from the networks the
\* two tools produced.
SemA == {Semantics(get_sketchbook_expression_map(sketchbook_networks[k]))
            : k \in DOMAIN sketchbook_networks}
SemB == {Semantics(get_bonesis_expression_map(bonesis_networks[k]))
            : k \in DOMAIN bonesis_networks}

\* Two candidate networks of the run have different sets of variable names.
MixedVariableSets ==
    \E k \in DOMAIN sketchbook_networks : \E j \in DOMAIN bonesis_networks :
        DOMAIN sketchbook_networks[k] # DOMAIN bonesis_networks[j]

\* C4: when two candidate networks of a run have different sets of variable
\* names, the run fails (DomainMismatch): it computes no diff and prints
\* no MATCH / DIFFER verdict.
C4_DomainMismatchFails ==
    MixedVariableSets => (m_pc \notin {"compared", "done"} /\ stdout.verdict = "none")

\* C5: the diff step yields only_in_a = A - B, only_in_b = B - A and
\* intersection = A & B under fingerprint equality; the three results are
\* pairwise disjoint, only_in_a and the intersection make up A, only_in_b
\* and the intersection make up B, and the counts printed are their sizes.
C5_DiffIsSetDifference ==
    (m_pc \in {"compared", "done"}) =>
        LET A == SemA
            B == SemB
            only_a == FpSemSet(only_in_sketchbook)
            only_b == FpSemSet(only_in_bonesis)
            both == FpSemSet(in_both)
        IN  /\ only_a = A \ B
            /\ only_b = B \ A
            /\ both = A \cap B
            /\ Cardinality(only_in_sketchbook) = Cardinality(A \ B)
            /\ Cardinality(only_in_bonesis) = Cardinality(B \ A)
            /\ Cardinality(in_both) = Cardinality(A \cap B)
            /\ only_in_sketchbook \cap only_in_bonesis = {}
            /\ only_in_sketchbook \cap in_both = {}
            /\ only_in_bonesis \cap in_both = {}
            /\ only_a \cup both = A
            /\ only_b \cup both = B
            /\ (m_pc = "done" =>
                    /\ stdout.only_in_sketchbook = Cardinality(A \ B)
                    /\ stdout.only_in_bonesis = Cardinality(B \ A)
                    /\ stdout.in_both = Cardinality(A \cap B))

\* Three Sketchbook networks and two BoNesis networks with two in common:
\* the counts printed are 1, 0 and 2.
C5_Witness ==
    /\ m_pc = "done"
    /\ Cardinality(SemA) = 3
    /\ Cardinality(SemB) = 2
    /\ stdout.only_in_sketchbook = 1
    /\ stdout.only_in_bonesis = 0
    /\ stdout.in_both = 2
    /\ stdout.verdict = "DIFFER"

\* C6: a completed run is classified MATCH exactly when both difference
\* sets are empty, that is, when the two candidate sets are equal as sets;
\* every other completed run is classified DIFFER.
C6_MatchIffSetsEqual ==
    (m_pc = "done") =>
        /\ stdout.verdict \in {"MATCH", "DIFFER"}
        /\ (stdout.verdict = "MATCH") <=> (only_in_sketchbook = {} /\ only_in_bonesis = {})
        /\ (stdout.verdict = "MATCH") <=> (SemA = SemB)

\* A run whose two non-empty candidate sets are equal although no network
\* of one tool is written like a network of the other.
C6_Witness ==
    /\ m_pc = "done"
    /\ stdout.verdict = "MATCH"
    /\ SemA # {}
    /\ \A k \in DOMAIN sketchbook_networks : \A j \in DOMAIN bonesis_networks :
        sketchbook_networks[k] # bonesis_networks[j]

\* C7: the candidate set of a tool holds exactly one element per class of
\* semantically identical networks: its size is the number of distinct
\* truth-table tuples in the sequence the tool produced.
C7_OneElementPerClass ==
    (m_pc \in {"canonical", "compared", "done"}) =>
        LET A == SemA
            B == SemB
        IN  /\ Cardinality(sketchbook_canonic_bns) = Cardinality(A)
            /\ Cardinality(bonesis_canonic_bns) = Cardinality(B)
            /\ FpSemSet(sketchbook_canonic_bns) = A
            /\ FpSemSet(bonesis_canonic_bns) = B

\* Syntactically different duplicates were produced and collapsed: more
\* distinct networks in the sequence than elements in the set.
C7_Witness ==
    /\ m_pc = "canonical"
    /\ Cardinality({sketchbook_networks[k] : k \in DOMAIN sketchbook_networks}) = 3
    /\ Cardinality(sketchbook_canonic_bns) = 2
    /\ Cardinality({bonesis_networks[k] : k \in DOMAIN bonesis_networks}) = 2
    /\ Cardinality(bonesis_canonic_bns) = 2

\* The run ended by an exception of parse_observations_csv.
ParserRaised == m_pc = "raised" /\ m_err \notin {ErrArchive, ErrEval, ErrKey}

\* A line has been printed.
Logged(line) == \E i \in DOMAIN m_log : m_log[i] = line

\* The progress lines of a complete run, in the order main() prints them.
FullLog == <<LogProcessing, LogLoadedRaw, LogExtractedSketchbook,
             LogComputing, LogExtractedBonesis, LogComparing>>

\* Every network of both sequences has its fingerprint in its candidate set.
BothDrained ==
    /\ \A k \in DOMAIN sketchbook_networks :
        CanonicalBN_init(get_sketchbook_expression_map(sketchbook_networks[k]))
            \in sketchbook_canonic_bns
    /\ \A k \in DOMAIN bonesis_networks :
        CanonicalBN_init(get_bonesis_expression_map(bonesis_networks[k]))
            \in bonesis_canonic_bns

\* C17 as stated: the parser runs on the data file before the archive is
\* opened, so the archive has been read only when the observations are
\* parsed, and a run ended by a parse error has not read the archive nor
\* extracted a network; the set operations are computed only after every
\* network of both sequences went through the builder.
C17_ParserRunsFirst ==
    /\ Logged(LogLoadedRaw) => data # EmptyDict
    /\ ParserRaised => (~Logged(LogLoadedRaw) /\ sketchbook_networks = <<>>)
    /\ (m_pc \in {"compared", "done"}) => BothDrained

\* C17 amended: the archive is read and every Sketchbook network
\* extracted first, then the parser runs on the data file, then the
\* BoNesis networks are enumerated, then the builder runs on every
\* network, then the set operations; a run ended by a parse error has
\* read the archive and has enumerated no BoNesis network and built no
\* fingerprint; the set operations are computed only after every network
\* of both sequences went through the builder.
C17_ArchiveThenParser ==
    /\ \E n \in 0..Len(FullLog) : m_log = SubSeq(FullLog, 1, n)
    /\ (data # EmptyDict) => Logged(LogExtractedSketchbook)
    /\ Logged(LogExtractedBonesis) => data # EmptyDict
    /\ ParserRaised =>
          /\ m_log = SubSeq(FullLog, 1, 4)
          /\ bonesis_networks = <<>>
          /\ sketchbook_canonic_bns = {} /\ bonesis_canonic_bns = {}
    /\ (sketchbook_canonic_bns # {} \/ bonesis_canonic_bns # {})
          => (Logged(LogExtractedBonesis) /\ Logged(LogComparing))
    /\ (m_pc \in {"compared", "done"}) => BothDrained
    /\ (m_pc \notin {"compared", "done"})
          => (only_in_sketchbook = {} /\ only_in_bonesis = {} /\ in_both = {})

\* Three networks were extracted from the archive, then the parser raised
\* on the cell holding 2.
C17_Witness ==
    /\ ParserRaised
    /\ m_err = ErrBadValue(<<"2">>)
    /\ Len(sketchbook_networks) = 3
    /\ Logged(LogExtractedSketchbook)

\* The expression holds a 1 or 0 token.
RECURSIVE HasRawLiteral(_)
HasRawLiteral(e) ==
    IF e \in {ERaw1, ERaw0} THEN TRUE
    ELSE IF e[1] = "not" THEN HasRawLiteral(e[2])
    ELSE IF e[1] \in {"and", "or"} THEN HasRawLiteral(e[2]) \/ HasRawLiteral(e[3])
    ELSE FALSE

\* The Sketchbook network sn is the BoNesis network bn with true written
\* for 1 and false for 0.
SameButLiterals(sn, bn) ==
    /\ DOMAIN sn = DOMAIN bn
    /\ \A v \in DOMAIN bn :
        sn[v] = (CASE bn[v] = ERaw1 -> ETrue [] bn[v] = ERaw0 -> EFalse [] OTHER -> bn[v])

\* C18: for every network BoNesis enumerated, the adapter gives true for a
\* function written 1 and false for a function written 0, leaves every
\* other expression as it was, and hands no expression with a 1 or 0 token
\* to the builder; the fingerprint built from it has the constant diagram
\* for such a function, and once the sets are compared a Sketchbook network
\* that writes the same constants and the same other expressions is found
\* in both sets.
C18_AdapterTranslatesLiterals ==
    \A k \in DOMAIN bonesis_networks :
        LET bn  == bonesis_networks[k]
            out == get_bonesis_expression_map(bn)
        IN  /\ DOMAIN out = DOMAIN bn
            /\ \A v \in DOMAIN bn :
                /\ ~HasRawLiteral(out[v])
                /\ (bn[v] = ERaw1) => (out[v] = ETrue)
                /\ (bn[v] = ERaw0) => (out[v] = EFalse)
                /\ (bn[v] \notin {ERaw1, ERaw0}) => (out[v] = bn[v])
            /\ (m_pc \in {"canonical", "compared", "done"}) =>
                  \E fp \in bonesis_canonic_bns :
                      /\ DOMAIN fp = DOMAIN bn
                      /\ \A v \in DOMAIN bn :
                          /\ (bn[v] = ERaw1) => (fp[v] = BddTrue)
                          /\ (bn[v] = ERaw0) => (fp[v] = BddFalse)
                          /\ (bn[v] \notin {ERaw1, ERaw0}) => (fp[v] = eval_expression(bn[v]))
            /\ (m_pc \in {"compared", "done"}) =>
                  \A j \in DOMAIN sketchbook_networks :
                      SameButLiterals(sketchbook_networks[j], bn) =>
                          \E fp \in in_both :
                              FpSemantics(fp) = Semantics(sketchbook_networks[j])

\* BoNesis enumerated the network with A written 1, the archive holds the
\* network with A written true, and the run found one network in both sets
\* and none in one set only.
C18_Witness ==
    /\ m_pc = "done"
    /\ bonesis_networks = <<Net(ERaw1, XA)>>
    /\ sketchbook_networks = <<Net(ETrue, XA)>>
    /\ stdout.in_both = 1
    /\ stdout.verdict = "MATCH"

\* BoNesis enumerated a network with a function written 0 and its
\* fingerprint was built.
C18_WitnessZero ==
    /\ m_pc \in {"canonical", "compared", "done"}
    /\ \E k \in DOMAIN bonesis_networks : bonesis_networks[k]["A"] = ERaw0

-----------------------------------------------------------------------------
(* Claims about parse_observations_csv (SpecCsv).                          *)

\* A text is blank: empty or whitespace only.
IsBlank(txt) == \A i \in DOMAIN txt : txt[i] = " "

\* A data row is retained unless every cell of it, the ID included, is blank.
RowRetained(row) == \E i \in DOMAIN row : ~IsBlank(row[i])

\* The trimmed cell of the i-th variable column in a row; a row too short
\* to have the cell has an empty one.
CellOf(row, i) == IF i + 1 <= Len(row) THEN Strip(row[i + 1]) ELSE <<>>

\* The mapping gives the identifier of row k an assignment that holds each
\* variable with True exactly when its cell is 1, with False exactly when
\* its cell is 0, and not at all when its cell is empty.
RowReflected(k) ==
    LET row == csv_rows[k]
        id  == Strip(row[1])
    IN  /\ id \in DOMAIN csv_spec
        /\ DOMAIN csv_spec[id] \subseteq {csv_vars[i] : i \in DOMAIN csv_vars}
        /\ \A i \in DOMAIN csv_vars :
            LET v == csv_vars[i]
                c == CellOf(row, i)
            IN  /\ (c = TxtOne) <=> (v \in DOMAIN csv_spec[id] /\ csv_spec[id][v] = TRUE)
                /\ (c = TxtZero) <=> (v \in DOMAIN csv_spec[id] /\ csv_spec[id][v] = FALSE)
                /\ (c = <<>>) => (v \notin DOMAIN csv_spec[id])

\* No later retained row carries the identifier of row k.
LastWithItsId(k) ==
    \A j \in DOMAIN csv_rows :
        (j > k /\ RowRetained(csv_rows[j])) => Strip(csv_rows[j][1]) # Strip(csv_rows[k][1])

\* C9 as stated: for every retained data row, the returned mapping gives
\* the row's identifier the assignment of that row's cells.
C9_EveryRetainedRowReflected ==
    (csv_pc = "returned") =>
        \A k \in DOMAIN csv_rows : RowRetained(csv_rows[k]) => RowReflected(k)

\* C9 amended: for every retained data row whose identifier no later
\* retained row repeats, the returned mapping gives the row's identifier
\* the assignment of that row's cells (cells compared after trimming).
C9_LastRetainedRowReflected ==
    (csv_pc = "returned") =>
        \A k \in DOMAIN csv_rows :
            (RowRetained(csv_rows[k]) /\ LastWithItsId(k)) => RowReflected(k)

\* A mapping was returned for a file with two variable columns whose last
\* row has a 1 and an empty cell and replaces an earlier row of the same
\* identifier.
C9_Witness ==
    /\ csv_pc = "returned"
    /\ Len(csv_vars) = 2
    /\ Len(csv_rows) = 2
    /\ csv_rows[1] = <<TxtO1, <<"0">>, <<"0">>>>
    /\ csv_rows[2] = <<TxtO1, <<"1">>, <<>>>>
    /\ DOMAIN csv_spec[TxtO1] = {TxtA}
    /\ csv_spec[TxtO1][TxtA] = TRUE

\* C10: a data row whose cells after the ID are all blank and whose ID is
\* not blank is stored as an observation with an empty assignment; a row
\* that is blank throughout, ID included, is skipped and leaves the mapping
\* as it was.
C10_BlankRows ==
    [][ (csv_pc = "rows" /\ Len(csv_rows') = Len(csv_rows) + 1) =>
          LET row == csv_rows'[Len(csv_rows')]
          IN  /\ (/\ row # <<>>
                  /\ ~IsBlank(row[1])
                  /\ \A i \in 2..Len(row) : IsBlank(row[i]))
                 => /\ csv_pc' = "rows"
                    /\ Strip(row[1]) \in DOMAIN csv_spec'
                    /\ DOMAIN csv_spec'[Strip(row[1])] = {}
              /\ (\A i \in DOMAIN row : IsBlank(row[i]))
                 => /\ csv_pc' = "rows"
                    /\ csv_spec' = csv_spec ]_vars

\* A row with an ID and blank cells was read, then a row blank throughout:
\* the mapping returned holds the one observation, without constraints.
C10_Witness ==
    /\ csv_pc = "returned"
    /\ Len(csv_rows) = 2
    /\ csv_rows[1] = <<TxtO1, <<" ">>, <<>>>>
    /\ csv_rows[2] = << <<>>, <<" ">> >>
    /\ DOMAIN csv_spec = {TxtO1}
    /\ DOMAIN csv_spec[TxtO1] = {}

\* The trimmed tokens of the cells after the identifier of a row that are
\* neither empty, 0 nor 1.
BadTokens(row) == {Strip(row[i]) : i \in 2..Len(row)} \ {<<>>, TxtOne, TxtZero}

\* C11: once a retained data row with a cell holding a token other than
\* empty, 0 or 1 has been read, the call has failed with the unsupported
\* value error that names such a token of the row, and returns no mapping.
C11_BadCellFails ==
    \A k \in DOMAIN csv_rows :
        (RowRetained(csv_rows[k]) /\ BadTokens(csv_rows[k]) # {}) =>
            /\ csv_pc = "raised"
            /\ csv_err[1] = ErrBadValue(<<>>)[1]
            /\ csv_err[2] \in BadTokens(csv_rows[k])

\* The header line was read (the file exists and has a first line).
HeaderRead == csv_pc # "call" /\ csv_err \notin {ErrFileNotFound, ErrFileEmpty}

\* The call has ended, by a return or by an exception.
CallEnded == csv_pc \in {"returned", "raised"}

\* C12: when the header read has no column after the ID, the call has
\* failed with the empty variable list error; when the call ends for a
\* header with variable columns and none of the data rows read is retained
\* (each is blank throughout), it has failed with the no observations error;
\* a mapping that is returned is never empty.
C12_EmptySpecFails ==
    /\ (HeaderRead /\ Len(csv_header) <= 1)
          => (csv_pc = "raised" /\ csv_err = ErrNoVars)
    /\ (HeaderRead /\ Len(csv_header) > 1 /\ CallEnded
          /\ \A k \in DOMAIN csv_rows : ~RowRetained(csv_rows[k]))
          => (csv_pc = "raised" /\ csv_err = ErrNoObs)
    /\ (csv_pc = "returned") => DOMAIN csv_spec # {}

\* Two data rows were read under a header with a variable column, a blank
\* line and a row of blank cells: the call failed with the no observations
\* error.
C12_Witness ==
    /\ csv_pc = "raised"
    /\ csv_err = ErrNoObs
    /\ Len(csv_header) > 1
    /\ csv_rows = << <<>>, << <<>>, <<" ">> >> >>

\* An ID column alone was read as the header: the call failed with the
\* empty variable list error.
C12_WitnessNoColumns ==
    /\ csv_pc = "raised"
    /\ csv_err = ErrNoVars
    /\ csv_header = <<TxtID>>

-----------------------------------------------------------------------------
(* Claims about run_comparisons_for_all_models (SpecBatch).                *)

\* The archive has its model file and its data file in the directory.
CompleteTriplet(st) == {"zip", "aeon", "csv"} \subseteq models_dir.files[st]

\* The positions of the lines printed of one kind about one archive.
LinesAbout(kind, st) ==
    {i \in DOMAIN b_out : b_out[i].kind = kind /\ b_out[i].stem = st}

\* The positions of the commands started for one archive.
RunsOf(st) == {i \in DOMAIN launched : launched[i].zip_file = st}

\* The positions of the results recorded for one archive.
ResultsOf(st) == {i \in DOMAIN results : results[i][1] = st}

\* C13: an archive without its model file or without its data file is
\* skipped: no comparison is ever started for it, and once the loop has
\* passed it the output holds one line that reports it as skipped; when
\* the function ends for a directory with one complete triplet and one
\* archive without its data file, there is one recorded classification,
\* that of the comparison run, and one skip line.
C13_MissingCompanionSkipped ==
    /\ \A k \in DOMAIN zip_files :
        ~CompleteTriplet(zip_files[k]) =>
            /\ RunsOf(zip_files[k]) = {}
            /\ LinesAbout("Comparing", zip_files[k]) = {}
            /\ Cardinality(LinesAbout("Skipping", zip_files[k]))
                  = (IF k < idx THEN 1 ELSE 0)
    /\ (/\ b_pc = "done"
        /\ Len(zip_files) = 2
        /\ \E k, j \in DOMAIN zip_files :
             /\ CompleteTriplet(zip_files[k])
             /\ models_dir.files[zip_files[j]] = {"zip", "aeon"})
       => /\ Len(results) = 1
          /\ Len(launched) = 1
          /\ \A i \in DOMAIN results : CompleteTriplet(results[i][1])
          /\ Cardinality({i \in DOMAIN b_out : b_out[i].kind = "Skipping"}) = 1

\* The function ended for a directory with the complete triplet of archive
\* 1 and archive 2 without its data file: one comparison was started, its
\* classification recorded, and one skip line printed, about archive 2.
C13_Witness ==
    /\ b_pc = "done"
    /\ zip_files = <<1, 2>>
    /\ CompleteTriplet(1)
    /\ models_dir.files[2] = {"zip", "aeon"}
    /\ Len(results) = 1
    /\ results[1][1] = 1
    /\ RunsOf(1) # {} /\ RunsOf(2) = {}
    /\ Cardinality(LinesAbout("Skipping", 2)) = 1

\* Every archive of the listing was skipped or has its status recorded,
\* and the summary is printed.
AllTerminal ==
    /\ b_pc = "done"
    /\ \A k \in DOMAIN zip_files :
        Cardinality(LinesAbout("Skipping", zip_files[k]))
            + Cardinality(ResultsOf(zip_files[k])) = 1
    /\ \E i \in DOMAIN b_out : b_out[i].kind = "SUMMARY"
    /\ \A k \in DOMAIN results :
        \E i \in DOMAIN b_out :
            b_out[i] = Line("row", results[k][1], results[k][2], 0)

\* C14: a comparison that was started ends, however it ends (exit code,
\* exception or timeout), with its status recorded and the loop at the
\* next archive; no archive has a comparison started twice; and once the
\* archives are listed, the function reaches its end with every archive
\* skipped or recorded and the summary printed.
C14_BatchCompletes ==
    /\ [][ (b_pc = "running") =>
              /\ b_pc' = "loop"
              /\ idx' = idx + 1
              /\ Len(results') = Len(results) + 1
              /\ results'[Len(results')][1] = zip_files[idx] ]_vars
    /\ [](\A k \in DOMAIN zip_files : Cardinality(RunsOf(zip_files[k])) <= 1)
    /\ (b_pc = "loop") ~> AllTerminal

\* The function ended after three comparisons, of which the first exited
\* with a non-zero code, the second timed out and the third raised.
C14_Witness ==
    /\ b_pc = "done"
    /\ Len(results) = 3
    /\ results[1][2] = "ERROR"
    /\ results[2][2] = "TIMEOUT"
    /\ results[3][2] = "EXCEPTION"
    /\ Len(launched) = 3
    /\ AllTerminal

\* Every comparison started so far that has ended has one result.
OneResultPerRun ==
    /\ Len(results) = Len(launched) - (IF b_pc = "running" THEN 1 ELSE 0)
    /\ \A k \in DOMAIN results : Cardinality(ResultsOf(results[k][1])) = 1
    /\ \A k \in DOMAIN results : launched[k].zip_file = results[k][1]

\* The status recorded last, for the comparison that ended last.
LastStatus == results[Len(results)][2]

\* C15 as stated: every comparison that ended is recorded with one label
\* of MATCH, DIFFER, ERROR, TIMEOUT: ERROR for a non-zero exit code or an
\* exception, TIMEOUT for the timeout, MATCH or DIFFER otherwise; the
\* summary table holds no other label.
C15_FourLabels ==
    /\ OneResultPerRun
    /\ \A k \in DOMAIN results : results[k][2] \in {"MATCH", "DIFFER", "ERROR", "TIMEOUT"}
    /\ (run_outcome.kind = "returned" /\ run_outcome.returncode # 0) => LastStatus = "ERROR"
    /\ (run_outcome.kind = "Exception") => LastStatus = "ERROR"
    /\ (run_outcome.kind = "TimeoutExpired") => LastStatus = "TIMEOUT"
    /\ (run_outcome.kind = "returned" /\ run_outcome.returncode = 0)
          => LastStatus \in {"MATCH", "DIFFER"}
    /\ \A i \in DOMAIN b_out :
          b_out[i].kind = "row" => b_out[i].text \in {"MATCH", "DIFFER", "ERROR", "TIMEOUT"}

\* C15 amended: every comparison that ended is recorded with one label of
\* MATCH, DIFFER, UNKNOWN, ERROR, TIMEOUT, EXCEPTION: ERROR for a non-zero
\* exit code, EXCEPTION for an exception other than the timeout, TIMEOUT
\* for the timeout, and for exit code 0 MATCH when the output holds the
\* match phrase, else DIFFER when it holds the differ phrase, else UNKNOWN;
\* the summary table holds no other label.
C15_SixLabels ==
    /\ OneResultPerRun
    /\ \A k \in DOMAIN results :
          results[k][2] \in {"MATCH", "DIFFER", "UNKNOWN", "ERROR", "TIMEOUT", "EXCEPTION"}
    /\ (run_outcome.kind = "returned" /\ run_outcome.returncode # 0) => LastStatus = "ERROR"
    /\ (run_outcome.kind = "Exception") => LastStatus = "EXCEPTION"
    /\ (run_outcome.kind = "TimeoutExpired") => LastStatus = "TIMEOUT"
    /\ (run_outcome.kind = "returned" /\ run_outcome.returncode = 0) =>
          LastStatus = (IF PhraseMatch \in run_outcome.stdout THEN "MATCH"
                        ELSE IF PhraseDiffer \in run_outcome.stdout THEN "DIFFER"
                        ELSE "UNKNOWN")
    /\ \A i \in DOMAIN b_out :
          b_out[i].kind = "row" =>
            \E k \in DOMAIN results :
                b_out[i].stem = results[k][1] /\ b_out[i].text = results[k][2]

\* The summary was printed with the rows of three comparisons: one that
\* raised, one that exited with code 0 without either phrase, one that
\* exited with a non-zero code although its output held the match phrase.
C15_Witness ==
    /\ b_pc = "done"
    /\ Len(results) = 3
    /\ results[1][2] = "EXCEPTION"
    /\ results[2][2] = "UNKNOWN"
    /\ results[3][2] = "ERROR"
    /\ run_outcome = Returned([returncode |-> 1, stdout |-> {PhraseMatch}])
    /\ \E i \in DOMAIN b_out : b_out[i] = Line("row", 2, "UNKNOWN", 0)

IsPrefix(a, b) == Len(a) <= Len(b) /\ SubSeq(b, 1, Len(a)) = a

IsRow(line) == line.kind = "row"
IsCount(line) == line.kind = "count"

\* The rows of the summary and the count lines, as printed.
RowsPrinted == SelectSeq(b_out, IsRow)
CountsPrinted == SelectSeq(b_out, IsCount)

\* The number of results that carry a status.
EntriesWith(status) == Cardinality({k \in DOMAIN results : results[k][2] = status})

RECURSIVE SumOfCounts(_, _)
SumOfCounts(lines, k) ==
    IF k > Len(lines) THEN 0 ELSE lines[k].n + SumOfCounts(lines, k + 1)

\* The table so far: at most one entry per archive of the listing, in the
\* order of the sorted listing.
TableInListingOrder ==
    /\ \A j, k \in DOMAIN zip_files : j < k => zip_files[j] < zip_files[k]
    /\ \A k \in DOMAIN results :
        /\ \E j \in DOMAIN zip_files : zip_files[j] = results[k][1]
        /\ Cardinality(ResultsOf(results[k][1])) = 1
    /\ \A j, k \in DOMAIN results : j < k => results[j][1] < results[k][1]

\* The summary as printed: the rows are the entries of the table in its
\* order, each status of the table has one count line, a count is the
\* number of entries with the status, and the counts sum to the number of
\* entries.
SummaryAgrees ==
    /\ Len(RowsPrinted) = Len(results)
    /\ \A k \in DOMAIN results :
        /\ RowsPrinted[k].stem = results[k][1]
        /\ RowsPrinted[k].text = results[k][2]
    /\ DOMAIN status_counts = {results[k][2] : k \in DOMAIN results}
    /\ \A status \in DOMAIN status_counts : status_counts[status] = EntriesWith(status)
    /\ \A i \in DOMAIN CountsPrinted :
        CountsPrinted[i].n = EntriesWith(CountsPrinted[i].text)
    /\ \A status \in DOMAIN status_counts :
        Cardinality({i \in DOMAIN CountsPrinted : CountsPrinted[i].text = status}) = 1
    /\ SumOfCounts(CountsPrinted, 1) = Len(results)

\* C16: the summary table only grows by appending; it holds at most one
\* entry per archive found, in the order of the sorted listing; the count
\* printed for a label is the number of entries with the label, and the
\* counts sum to the number of entries.
C16_SummaryTable ==
    /\ [][IsPrefix(results, results')]_vars
    /\ [](TableInListingOrder /\ (b_pc = "done" => SummaryAgrees))

\* The summary was printed for three archives of which the second was
\* skipped and the other two matched: two rows, one count line with 2.
C16_Witness ==
    /\ b_pc = "done"
    /\ zip_files = <<1, 2, 3>>
    /\ results = << <<1, "MATCH">>, <<3, "MATCH">> >>
    /\ status_counts = [s \in {"MATCH"} |-> 2]
    /\ CountsPrinted = <<Line("count", 0, "MATCH", 2)>>

====
